---- MODULE Spec2Model ----
(***************************************************************************)
(* A model of the notebook Visualization_of_LLM.ipynb: the whitespace      *)
(* tokenizer, the construction of SimpleLLM, its forward pass (shapes,     *)
(* index checks and positional rows), the online training loop and the    *)
(* greedy inference cell.                                                  *)
(*                                                                         *)
(* Tensors of floats are not representable in TLC.  A tensor's contents    *)
(* are modelled by integers modulo ValueRange; every shape, dtype, index   *)
(* check, broadcast rule and control-flow decision is modelled as torch    *)
(* and Python perform it.                                                  *)
(***************************************************************************)
EXTENDS Integers, Sequences, FiniteSets, TLC

VARIABLES
  cfg,             \* the arguments given to SimpleLLM(...)             (l.293-298)
  model,           \* the SimpleLLM object (its tensors' shapes), or NoModel
  state_dict,      \* tensor name -> contents, parameters and buffers alike
  optimizer,       \* the Adam object: the tensors it updates, its step count
  grad,            \* the .grad buffers: the examples back-propagated into them
  data,            \* the corpus, a list of texts                       (l.302-331)
  tokenized_data,  \* (l.333)
  epoch,           \* the index `for epoch in range(200)` hands out next
  total_loss,      \* (l.336, 346)
  si,              \* position of `for sentence in tokenized_data`      (l.337)
  i,               \* the split point of `for i in range(1, len(sentence))`
  input_seq,       \* (l.339)
  target,          \* (l.340)
  output,          \* the result of model(...)                          (l.342, 384)
  loss,            \* (l.343)
  pc,              \* the statement that runs next
  error,           \* the exception that ended the run, or "none"
  console,         \* what the user at the prompt may type: "short" or "long"
  input_text,      \* (l.381)
  input_tokens,    \* (l.382)
  input_tensor,    \* (l.383)
  predicted_token, \* (l.385)
  stdout,          \* what print() has written
  runs,            \* how often the inference cell has been started
  examples,        \* history: the examples this epoch has trained on, in order
  phases,          \* history: the steps taken for the current example
  steps,           \* history: optimizer steps taken since training began
  ticks,           \* history: statements of Step 7 executed
  decoded          \* history: one record per finished inference run

vars == << cfg, model, state_dict, optimizer, grad, data, tokenized_data, epoch,
           total_loss, si, i, input_seq, target, output, loss, pc, error,
           console, input_text, input_tokens, input_tensor, predicted_token,
           stdout, runs, examples, phases, steps, ticks, decoded >>

trainVars == << tokenized_data, epoch, total_loss, si, i, input_seq, target,
                loss, examples, phases, steps >>
inferVars == << input_text, input_tokens, input_tensor, predicted_token,
                runs, decoded >>

(***************************************************************************)
(* Bounds of the model.                                                    *)
(***************************************************************************)
MaxWords     == 2   \* words in a sentence of a generated corpus
MaxSentences == 2   \* sentences in a generated corpus
MaxPieces    == 3   \* words and blanks in a text typed at the prompt
MaxRuns      == 2   \* executions of the inference cell
MaxDim       == 5   \* largest embedding_dim tried at construction
MaxHidden    == 2   \* largest hidden_dim tried at construction
MaxLayers    == 2   \* largest num_layers tried at construction
MaxVocab     == 3   \* largest vocab_size tried at construction
ValueRange   == 7   \* tensor contents are integers modulo ValueRange

None    == "None"
NoModel == [built |-> FALSE]

Min(a, b) == IF a < b THEN a ELSE b

(***************************************************************************)
(* Step 7, l.275-296: the vocabulary and the configuration.                *)
(***************************************************************************)
vocab ==
  ( "hello" :> 0 @@ "world" :> 1 @@ "how" :> 2 @@ "are" :> 3 @@ "you" :> 4 @@
    "<UNK>" :> 5 @@ "good" :> 6 @@ "morning" :> 7 @@ "evening" :> 8 @@
    "night" :> 9 @@ "friend" :> 10 @@ "nice" :> 11 @@ "to" :> 12 @@
    "meet" :> 13 @@ "learning" :> 14 @@ "AI" :> 15 @@ "is" :> 16 @@
    "fun" :> 17 @@ "great" :> 18 @@ "awesome" :> 19 @@ "day" :> 20 @@
    "doing" :> 21 @@ "today" :> 22 @@ "hope" :> 23 @@ "all" :> 24 @@
    "well" :> 25 @@ "enjoy" :> 26 @@ "sunny" :> 27 @@ "weather" :> 28 @@
    "coding" :> 29 @@ "Python" :> 30 @@ "machine" :> 31 @@ "data" :> 32 @@
    "science" :> 33 @@ "artificial" :> 34 @@ "intelligence" :> 35 @@
    "deep" :> 36 @@ "neural" :> 37 @@ "network" :> 38 @@ "natural" :> 39 @@
    "language" :> 40 @@ "processing" :> 41 @@ "happy" :> 42 @@
    "birthday" :> 43 @@ "welcome" :> 44 @@ "home" :> 45 @@ "family" :> 46 @@
    "weekend" :> 47 @@ "vacation" :> 48 @@ "study" :> 49 @@ "new" :> 50 @@
    "projects" :> 51 @@ "explore" :> 52 @@ "knowledge" :> 53 @@
    "reading" :> 54 @@ "books" :> 55 @@ "writing" :> 56 @@ "articles" :> 57 @@
    "playing" :> 58 @@ "games" :> 59 @@ "music" :> 60 @@ "exercise" :> 61 @@
    "healthy" :> 62 @@ "lifestyle" :> 63 @@ "delicious" :> 64 @@ "food" :> 65 @@
    "travel" :> 66 @@ "adventure" :> 67 @@ "nature" :> 68 @@
    "photography" :> 69 @@ "technology" :> 70 @@ "innovation" :> 71 @@
    "future" :> 72 )

vocab_size    == Cardinality(DOMAIN vocab)
embedding_dim == 32
hidden_dim    == 64
num_layers    == 2
max_seq_len   == 5000
NumEpochs     == 200
ReportEvery   == 20

NotebookCfg == [vocab_size |-> vocab_size, embedding_dim |-> embedding_dim,
                hidden_dim |-> hidden_dim, num_layers |-> num_layers]

(***************************************************************************)
(* Texts.  A text is a sequence of pieces; a piece is a word (a maximal    *)
(* run of non-blank characters) or Blank (a maximal run of whitespace).    *)
(* Two words are therefore never adjacent in a text.                       *)
(***************************************************************************)
Blank == " "

IsWord(piece) == piece # Blank

\* " ".join(words): the way every sentence of `data` is written.
Join(words) ==
  [k \in 1..(IF words = << >> THEN 0 ELSE 2 * Len(words) - 1) |->
     IF k % 2 = 1 THEN words[(k + 1) \div 2] ELSE Blank]

\* str.split() with no argument: the maximal non-blank runs, in order.
split(text) == SelectSeq(text, IsWord)

\* dict.get(word, default)
get(d, word, default) == IF word \in DOMAIN d THEN d[word] ELSE default

\* A tokenizer that never returns an empty list.
tokenizeNeverEmpty(text, v) ==
  IF split(text) = << >> THEN << v["<UNK>"] >>
  ELSE [k \in 1..Len(split(text)) |-> get(v, split(text)[k], v["<UNK>"])]

\* A tokenizer that gives an unknown word the next free id, len(vocab).
tokenizeUnkLen(text, v) ==
  [k \in 1..Len(split(text)) |-> get(v, split(text)[k], Cardinality(DOMAIN v))]

\* l.68-69: one id per word of text.split(), the vocabulary's or, for a
\* word it does not hold, the id of "<UNK>".
tokenize(text, v) ==
  [k \in 1..Len(split(text)) |-> get(v, split(text)[k], v["<UNK>"])]

(***************************************************************************)
(* Tensors.  torch.tensor(list) of a list of Python ints is an int64       *)
(* tensor; of the empty list it is a float32 tensor of shape (0,), since   *)
(* no element fixes the dtype.  unsqueeze(0) adds the batch dimension 1.   *)
(***************************************************************************)
tensor(list) ==
  [dtype |-> IF list = << >> THEN "float32" ELSE "int64", data |-> list]

\* The size a dimension of size a and one of size b broadcast to, or -1
\* when torch refuses ("The size of tensor a must match ...").
Broadcast(a, b) ==
  IF a = b THEN a ELSE IF a = 1 THEN b ELSE IF b = 1 THEN a ELSE -1

\* Whether a source of `src` columns can be copied into a slice of `dst`
\* columns (Tensor.__setitem__ expands the source to the slice).
Expandable(src, dst) == src = dst \/ src = 1

(***************************************************************************)
(* Construction (l.89-92, 115-125, 148-153, 182-192, 219-225).             *)
(***************************************************************************)
Raised(e) == [err |-> e, model |-> NoModel]

\* A positional encoder that drops the cosine columns that do not fit.
PositionalEncodingInitCoerced(d, M) ==
  IF d = 0 THEN [err |-> "ZeroDivisionError", pe |-> None]
  ELSE [err |-> "none", pe |-> [rows |-> M, cols |-> d]]

\* l.116-125.  div_term has len(range(0, d, 2)) entries; pe[:, 0::2] has as
\* many columns, pe[:, 1::2] has d // 2.
PositionalEncodingInit(d, M) ==
  IF d = 0 THEN [err |-> "ZeroDivisionError", pe |-> None]       \* l.121
  ELSE LET div_term == (d + 1) \div 2
           evenCols == (d + 1) \div 2
           oddCols  == d \div 2
       IN  IF ~Expandable(div_term, evenCols)                       \* l.122
             \/ ~Expandable(div_term, oddCols)                      \* l.123
           THEN [err |-> "RuntimeError", pe |-> None]
           ELSE [err |-> "none", pe |-> [rows |-> M, cols |-> d]]

\* l.220-225: the sub-modules are built in this order; the first that
\* raises ends the constructor.
SimpleLLMInit(vs, d, h, n) ==
  LET pos == PositionalEncodingInit(d, max_seq_len)
  IN  IF pos.err # "none" THEN Raised(pos.err)
      ELSE [err   |-> "none",
            model |-> [built     |-> TRUE,
                       embedding |-> [rows |-> vs, cols |-> d],
                       pe        |-> pos.pe,
                       blocks    |-> [b \in 1..n |-> [d |-> d, hidden |-> h]],
                       output    |-> [in |-> d, out |-> vs]]]

\* The tensors of a model by name: nn.Parameter's, and buffers
\* (register_buffer, l.125).
Buffers(m) == { <<"positional_encoding.pe", 0>> }

AllTensors(m) ==
  { <<"embedding", 0>>, <<"output", 0>> }
    \cup { <<"transformer_blocks", b>> : b \in 1..Len(m.blocks) }
    \cup Buffers(m)

parametersAndBuffers(m) == AllTensors(m)

\* model.parameters() (l.300): the parameters, not the buffers.
parameters(m) == AllTensors(m) \ Buffers(m)

\* The random initialisations of the parameters the model tries.
Seeds == { 0, 1 }

\* The contents after construction: the parameters are drawn at random
\* (seed), the positional table is the fixed formula of l.119-123 (0).
InitialStateDict(m, seed) ==
  [n \in AllTensors(m) |-> IF n \in Buffers(m) THEN 0 ELSE (seed + n[2]) % ValueRange]

\* optim.Adam(model.parameters(), lr=0.001), l.300.
Adam(params) == [params |-> params, step |-> 0]

(***************************************************************************)
(* The forward pass (l.94-95, 127-128, 155-162, 194-199, 227-234).         *)
(***************************************************************************)
Failed(e) == [err |-> e, shape |-> << >>, rows |-> << >>, logits |-> << >>]

RECURSIVE SumRec(_, _, _)
SumRec(f, lo, hi) ==
  IF lo > hi THEN 0
  ELSE IF lo = hi THEN f[lo]
  ELSE LET mid == (lo + hi) \div 2
       IN  SumRec(f, lo, mid) + SumRec(f, mid + 1, hi)

\* f[lo] + ... + f[hi]
SumRange(f, lo, hi) == LET g == f IN SumRec(g, lo, hi)

\* l.94-95: nn.Embedding wants integer indices, each a row of the table.
EmbeddingError(m, x) ==
  IF x.dtype # "int64" THEN "RuntimeError"
  ELSE IF \E k \in 1..Len(x.data) : x.data[k] \notin 0..(m.embedding.rows - 1)
       THEN "IndexError"
       ELSE "none"

\* A positional encoder that adds the rows it has and leaves the rest.
PositionalRowsTruncated(m, L) ==
  [ok |-> TRUE,
   rows |-> [p \in 1..L |-> IF p <= m.pe.rows THEN p - 1 ELSE m.pe.rows - 1]]

\* l.127-128: x is (L, 1, d), self.pe[:L] is (min(L, max_seq_len), 1, d);
\* the sum broadcasts.  The result names the row of pe added at each
\* position of the sum, unless the shapes do not broadcast.
PositionalRows(m, L) ==
  LET R == Min(L, m.pe.rows)
      n == Broadcast(L, R)
  IN  IF n < 0 THEN [ok |-> FALSE, rows |-> << >>]
      ELSE [ok |-> TRUE, rows |-> [p \in 1..n |-> IF R = 1 THEN 0 ELSE p - 1]]

\* Integer stand-ins for the float arithmetic of the layers.  The row of
\* logits at a position depends on that position's token and positional
\* row, on every position of the input (attention is not masked) and on
\* every tensor of the model.
Hidden(sd, x, rows) ==
  [p \in 1..Len(rows) |->
     ( sd[<<"embedding", 0>>] * (x.data[IF Len(x.data) = 1 THEN 1 ELSE p] + 1)
       + rows[p] + sd[<<"positional_encoding.pe", 0>>] ) % ValueRange]

Blocks(m, sd) ==
  SumRange([b \in 1..Len(m.blocks) |-> sd[<<"transformer_blocks", b>>]],
           1, Len(m.blocks))

Logits(m, sd, x, rows) ==
  LET h   == Hidden(sd, x, rows)
      ctx == (SumRange(h, 1, Len(h)) + Blocks(m, sd)) % ValueRange
      out == sd[<<"output", 0>>]
  IN  [p \in 1..Len(rows) |->
        [v \in 0..(m.output.out - 1) |->
           ((h[p] + ctx) * (v + 1) + out * v) % ValueRange]]

\* l.227-234
forward(m, sd, x) ==
  IF EmbeddingError(m, x) # "none" THEN Failed(EmbeddingError(m, x))
  ELSE LET pos == PositionalRows(m, Len(x.data))
       IN  IF ~pos.ok THEN Failed("RuntimeError")
           ELSE [err    |-> "none",
                 shape  |-> << 1, Len(pos.rows), m.output.out >>,
                 rows   |-> pos.rows,
                 logits |-> Logits(m, sd, x, pos.rows)]

\* An index that selects the first position of the dimension.
LastIndexFirst(n) == IF n >= 1 THEN 0 ELSE -1

\* output[:, -1, :]: the 0-based position Python's index -1 selects in a
\* dimension of size n, or -1 for IndexError (n = 0).
LastIndex(n) == IF n >= 1 THEN n - 1 ELSE -1

\* The largest entry of one row of logits.
MaxOf(row) ==
  LET values == { row[v] : v \in DOMAIN row }
  IN  CHOOSE m \in values : \A n \in values : n <= m

\* nn.CrossEntropyLoss on one row of logits: log-sum-exp minus the target's
\* logit, here the maximum minus the target's logit (0 when the target is
\* an arg-max, positive otherwise).
CrossEntropy(row, t) == MaxOf(row) - row[t]

\* torch.argmax of one row: the first index holding the maximum.
argmax(row) ==
  LET m == MaxOf(row)
  IN  CHOOSE v \in DOMAIN row :
        row[v] = m /\ \A w \in DOMAIN row : w < v => row[w] < m

(***************************************************************************)
(* The corpus (l.302-331) and the texts the model is run on.               *)
(***************************************************************************)
NotebookSentences ==
  << <<"hello", "world", "how", "are", "you">>,
     <<"how", "are", "you", "hello", "world">>,
     <<"good", "morning", "friend">>,
     <<"nice", "to", "meet", "you">>,
     <<"learning", "AI", "is", "fun">>,
     <<"have", "a", "great", "day">>,
     <<"hope", "you", "are", "doing", "well">>,
     <<"AI", "is", "awesome">>,
     <<"what", "are", "you", "doing", "today">>,
     <<"good", "evening", "to", "all">>,
     <<"enjoy", "the", "sunny", "weather">>,
     <<"Python", "coding", "is", "exciting">>,
     <<"machine", "learning", "is", "amazing">>,
     <<"deep", "neural", "network", "is", "powerful">>,
     <<"natural", "language", "processing", "is", "interesting">>,
     <<"happy", "birthday", "to", "you">>,
     <<"welcome", "home", "family">>,
     <<"weekend", "vacation", "is", "relaxing">>,
     <<"study", "new", "projects", "to", "explore", "knowledge">>,
     <<"reading", "books", "is", "beneficial">>,
     <<"writing", "articles", "improves", "skills">>,
     <<"playing", "games", "is", "entertaining">>,
     <<"music", "is", "refreshing">>,
     <<"exercise", "maintains", "a", "healthy", "lifestyle">>,
     <<"delicious", "food", "makes", "a", "great", "day">>,
     <<"travel", "and", "adventure", "bring", "joy">>,
     <<"nature", "photography", "is", "inspiring">>,
     <<"technology", "and", "innovation", "shape", "the", "future">> >>

NotebookData == [k \in 1..Len(NotebookSentences) |-> Join(NotebookSentences[k])]

\* Other corpora the loop is run on: up to MaxSentences sentences, each the
\* first 0..MaxWords words of "have a great day" (l.308; "have" and "a" are
\* not in the vocabulary).
GeneratedSentences ==
  { Join(SubSeq(NotebookSentences[6], 1, n)) :
      n \in 0..Min(MaxWords, Len(NotebookSentences[6])) }

GeneratedCorpora ==
  UNION { [1..n -> GeneratedSentences] : n \in 0..MaxSentences }

Corpora == { NotebookData } \cup GeneratedCorpora

\* The texts typed at the prompt of l.381: every alternation of words and
\* whitespace of up to MaxPieces pieces, over two words of the vocabulary
\* and one that is not.
Pieces == { Blank, "AI", "is", "zebra" }

Texts ==
  { t \in UNION { [1..n -> Pieces] : n \in 0..MaxPieces } :
      \A k \in 1..(Len(t) - 1) : IsWord(t[k]) # IsWord(t[k + 1]) }

\* A text of n words.
LongText(n) == Join([k \in 1..n |-> "AI"])

LongTexts == { LongText(max_seq_len), LongText(max_seq_len + 1) }

\* The texts input() may return (l.381).
input(c) == IF c = "long" THEN Texts \cup LongTexts ELSE Texts

(***************************************************************************)
(* The initial states.                                                     *)
(***************************************************************************)
NoTensor    == [dtype |-> "unset", data |-> << >>]
NoOutput    == Failed("unset")
NoOptimizer == [params |-> {}, step |-> 0]

Fresh ==
  /\ model = NoModel /\ state_dict = << >> /\ optimizer = NoOptimizer
  /\ grad = << >> /\ tokenized_data = << >> /\ epoch = 0 /\ total_loss = 0
  /\ si = 0 /\ i = 0 /\ input_seq = NoTensor /\ target = -1
  /\ output = NoOutput /\ loss = -1 /\ pc = "construct" /\ error = "none"
  /\ input_text = << >> /\ input_tokens = << >> /\ input_tensor = NoTensor
  /\ predicted_token = -1 /\ stdout = << >> /\ runs = 0
  /\ examples = << >> /\ phases = << >> /\ steps = 0 /\ ticks = 0
  /\ decoded = << >>

\* The notebook run from the top, on the notebook's corpus or a generated one.
Init ==
  /\ cfg = NotebookCfg
  /\ data \in Corpora
  /\ console = "short"
  /\ Fresh

\* The notebook run from the top on the first two sentences of its corpus.
InitInfer ==
  /\ cfg = NotebookCfg
  /\ data = SubSeq(NotebookData, 1, 2)
  /\ console = "short"
  /\ Fresh

\* The same, with a user who may also type max_seq_len words, or one more.
InitLong ==
  /\ cfg = NotebookCfg
  /\ data = SubSeq(NotebookData, 1, 2)
  /\ console = "long"
  /\ Fresh

\* The notebook run from the top with other arguments to SimpleLLM(...).
InitConstruct ==
  /\ cfg \in [vocab_size : 1..MaxVocab, embedding_dim : 0..MaxDim,
              hidden_dim : 1..MaxHidden, num_layers : 0..MaxLayers]
  /\ data = << Join(<<"hello", "world">>) >>
  /\ console = "short"
  /\ Fresh

(***************************************************************************)
(* Step 7: construction and the training loop (l.298-348).                 *)
(***************************************************************************)
Raise(e) == error' = e /\ pc' = "raised"

\* l.298-300: model = SimpleLLM(...); criterion; optimizer = Adam(...).
Construct ==
  /\ pc = "construct"
  /\ ticks' = ticks + 1
  /\ LET r == SimpleLLMInit(cfg.vocab_size, cfg.embedding_dim,
                            cfg.hidden_dim, cfg.num_layers)
     IN  IF r.err # "none"
         THEN /\ Raise(r.err)
              /\ UNCHANGED << model, state_dict, optimizer >>
         ELSE /\ \E seed \in Seeds :
                   state_dict' = InitialStateDict(r.model, seed)
              /\ model' = r.model
              /\ optimizer' = Adam(parameters(r.model))
              /\ pc' = "tokenize_data"
              /\ error' = error
  /\ UNCHANGED << cfg, grad, data, output, console, stdout >>
  /\ UNCHANGED trainVars
  /\ UNCHANGED inferVars

\* l.333
TokenizeData ==
  /\ pc = "tokenize_data"
  /\ ticks' = ticks + 1
  /\ tokenized_data' = [k \in 1..Len(data) |-> tokenize(data[k], vocab)]
  /\ pc' = "epoch"
  /\ UNCHANGED << cfg, model, state_dict, optimizer, grad, data, output, error,
                  console, stdout, epoch, total_loss, si, i, input_seq, target,
                  loss, examples, phases, steps >>
  /\ UNCHANGED inferVars

InRangeInclusive(e) == e <= NumEpochs

\* range(200) has another index to hand out.
InRange(e) == e < NumEpochs

\* l.335-336: the head of `for epoch in range(200)`, and total_loss = 0.
EpochHead ==
  /\ pc = "epoch"
  /\ ticks' = ticks + 1
  /\ IF InRange(epoch)
     THEN /\ total_loss' = 0
          /\ si' = 1
          /\ examples' = << >>
          /\ pc' = "sentence"
     ELSE /\ pc' = "input"
          /\ UNCHANGED << total_loss, si, examples >>
  /\ UNCHANGED << cfg, model, state_dict, optimizer, grad, data, output, error,
                  console, stdout, tokenized_data, epoch, i, input_seq, target,
                  loss, phases, steps >>
  /\ UNCHANGED inferVars

\* l.337: the head of `for sentence in tokenized_data`.
SentenceHead ==
  /\ pc = "sentence"
  /\ ticks' = ticks + 1
  /\ IF si <= Len(tokenized_data)
     THEN i' = 1 /\ pc' = "split"
     ELSE i' = i /\ pc' = "report"
  /\ UNCHANGED << cfg, model, state_dict, optimizer, grad, data, output, error,
                  console, stdout, tokenized_data, epoch, total_loss, si,
                  input_seq, target, loss, examples, phases, steps >>
  /\ UNCHANGED inferVars

InputSeqWithTarget(sentence, k) == SubSeq(sentence, 1, k + 1)

\* sentence[:i] and sentence[i] of l.339-340 (Python counts from 0).
InputSeq(sentence, k) == SubSeq(sentence, 1, k)
Target(sentence, k) == sentence[k + 1]

\* l.338-340: the head of `for i in range(1, len(sentence))`, input_seq and
\* target.
SplitHead ==
  /\ pc = "split"
  /\ ticks' = ticks + 1
  /\ LET sentence == tokenized_data[si]
     IN  IF i < Len(sentence)
         THEN /\ input_seq' = tensor(InputSeq(sentence, i))
              /\ target' = Target(sentence, i)
              /\ phases' = << >>
              /\ pc' = "zero_grad"
              /\ si' = si
         ELSE /\ si' = si + 1
              /\ pc' = "sentence"
              /\ UNCHANGED << input_seq, target, phases >>
  /\ UNCHANGED << cfg, model, state_dict, optimizer, grad, data, output, error,
                  console, stdout, tokenized_data, epoch, total_loss, i, loss,
                  examples, steps >>
  /\ UNCHANGED inferVars

ZeroGradKeep(g) == g

\* optimizer.zero_grad(): the .grad buffers are cleared.
ZeroGrad(g) == << >>

\* l.341
ZeroGradStep ==
  /\ pc = "zero_grad"
  /\ ticks' = ticks + 1
  /\ grad' = ZeroGrad(grad)
  /\ phases' = Append(phases, "zero_grad")
  /\ pc' = "forward"
  /\ UNCHANGED << cfg, model, state_dict, optimizer, data, output, error,
                  console, stdout, tokenized_data, epoch, total_loss, si, i,
                  input_seq, target, loss, examples, steps >>
  /\ UNCHANGED inferVars

\* l.342: output = model(input_seq)
Forward ==
  /\ pc = "forward"
  /\ ticks' = ticks + 1
  /\ output' = forward(model, state_dict, input_seq)
  /\ phases' = Append(phases, "forward")
  /\ IF output'.err # "none" THEN Raise(output'.err)
                             ELSE pc' = "loss" /\ error' = error
  /\ UNCHANGED << cfg, model, state_dict, optimizer, grad, data, console,
                  stdout, tokenized_data, epoch, total_loss, si, i, input_seq,
                  target, loss, examples, steps >>
  /\ UNCHANGED inferVars

\* l.343: loss = criterion(output[:, -1, :], target)
Loss ==
  /\ pc = "loss"
  /\ ticks' = ticks + 1
  /\ LET last == LastIndex(output.shape[2])
     IN  IF last < 0 \/ target \notin 0..(output.shape[3] - 1)
         THEN Raise("IndexError") /\ UNCHANGED << loss, examples, phases >>
         ELSE /\ loss' = CrossEntropy(output.logits[last + 1], target)
              /\ examples' = Append(examples,
                   [sentence |-> si, i |-> i, input |-> input_seq.data,
                    target |-> target, position |-> last])
              /\ phases' = Append(phases, "loss")
              /\ pc' = "backward"
              /\ error' = error
  /\ UNCHANGED << cfg, model, state_dict, optimizer, grad, data, output,
                  console, stdout, tokenized_data, epoch, total_loss, si, i,
                  input_seq, target, steps >>
  /\ UNCHANGED inferVars

\* l.344: loss.backward() adds this example's gradient to the .grad buffers.
Backward ==
  /\ pc = "backward"
  /\ ticks' = ticks + 1
  /\ grad' = Append(grad, << epoch, si, i >>)
  /\ phases' = Append(phases, "backward")
  /\ pc' = "step"
  /\ UNCHANGED << cfg, model, state_dict, optimizer, data, output, error,
                  console, stdout, tokenized_data, epoch, total_loss, si, i,
                  input_seq, target, loss, examples, steps >>
  /\ UNCHANGED inferVars

\* The change Adam makes to a tensor whose .grad holds the gradients g.
Update(g) == SumRange([k \in 1..Len(g) |-> 1 + g[k][3]], 1, Len(g))

\* optimizer.step(): every tensor the optimizer was given moves, no other.
OptimizerStep(opt, sd, g) ==
  [n \in DOMAIN sd |->
     IF n \in opt.params THEN (sd[n] + Update(g)) % ValueRange ELSE sd[n]]

\* l.345
Step ==
  /\ pc = "step"
  /\ ticks' = ticks + 1
  /\ state_dict' = OptimizerStep(optimizer, state_dict, grad)
  /\ optimizer' = [optimizer EXCEPT !.step = @ + 1]
  /\ steps' = steps + 1
  /\ phases' = Append(phases, "step")
  /\ pc' = "accumulate"
  /\ UNCHANGED << cfg, model, grad, data, output, error, console, stdout,
                  tokenized_data, epoch, total_loss, si, i, input_seq, target,
                  loss, examples >>
  /\ UNCHANGED inferVars

\* l.346, and the next index of range(1, len(sentence)).
Accumulate ==
  /\ pc = "accumulate"
  /\ ticks' = ticks + 1
  /\ total_loss' = total_loss + loss
  /\ phases' = Append(phases, "accumulate")
  /\ i' = i + 1
  /\ pc' = "split"
  /\ UNCHANGED << cfg, model, state_dict, optimizer, grad, data, output, error,
                  console, stdout, tokenized_data, epoch, si, input_seq, target,
                  loss, examples, steps >>
  /\ UNCHANGED inferVars

\* l.347-348, and the next index of range(200).
Report ==
  /\ pc = "report"
  /\ ticks' = ticks + 1
  /\ stdout' = IF epoch % ReportEvery = 0
               THEN Append(stdout, [kind |-> "epoch", text |-> << >>,
                                    n |-> epoch, value |-> total_loss,
                                    word |-> ""])
               ELSE stdout
  /\ epoch' = epoch + 1
  /\ pc' = "epoch"
  /\ UNCHANGED << cfg, model, state_dict, optimizer, grad, data, output, error,
                  console, tokenized_data, total_loss, si, i, input_seq, target,
                  loss, examples, phases, steps >>
  /\ UNCHANGED inferVars

(***************************************************************************)
(* Step 8: the inference cell (l.381-386).                                 *)
(***************************************************************************)
\* l.381: input_text = input("Enter a sentence: ")
ReadInput ==
  /\ pc = "input"
  /\ UNCHANGED ticks
  /\ runs < MaxRuns
  /\ \E t \in input(console) : input_text' = t
  /\ runs' = runs + 1
  /\ pc' = "tokenize"
  /\ UNCHANGED << cfg, model, state_dict, optimizer, grad, data, output, error,
                  console, stdout, input_tokens, input_tensor, predicted_token,
                  decoded >>
  /\ UNCHANGED trainVars

\* l.382
TokenizeInput ==
  /\ pc = "tokenize"
  /\ UNCHANGED ticks
  /\ input_tokens' = tokenize(input_text, vocab)
  /\ pc' = "tensor"
  /\ UNCHANGED << cfg, model, state_dict, optimizer, grad, data, output, error,
                  console, stdout, input_text, input_tensor, predicted_token,
                  runs, decoded >>
  /\ UNCHANGED trainVars

\* l.383
MakeTensor ==
  /\ pc = "tensor"
  /\ UNCHANGED ticks
  /\ input_tensor' = tensor(input_tokens)
  /\ pc' = "infer_forward"
  /\ UNCHANGED << cfg, model, state_dict, optimizer, grad, data, output, error,
                  console, stdout, input_text, input_tokens, predicted_token,
                  runs, decoded >>
  /\ UNCHANGED trainVars

\* l.384: output = model(input_tensor)
InferForward ==
  /\ pc = "infer_forward"
  /\ UNCHANGED ticks
  /\ output' = forward(model, state_dict, input_tensor)
  /\ IF output'.err # "none" THEN Raise(output'.err)
                             ELSE pc' = "argmax" /\ error' = error
  /\ UNCHANGED << cfg, model, state_dict, optimizer, grad, data, console,
                  stdout >>
  /\ UNCHANGED inferVars
  /\ UNCHANGED trainVars

\* l.385: predicted_token = torch.argmax(output[:, -1, :]).item()
ArgMax ==
  /\ pc = "argmax"
  /\ UNCHANGED ticks
  /\ LET last == LastIndex(output.shape[2])
     IN  IF last < 0
         THEN Raise("IndexError") /\ UNCHANGED predicted_token
         ELSE /\ predicted_token' = argmax(output.logits[last + 1])
              /\ pc' = "print"
              /\ error' = error
  /\ UNCHANGED << cfg, model, state_dict, optimizer, grad, data, output,
                  console, stdout, input_text, input_tokens, input_tensor,
                  runs, decoded >>
  /\ UNCHANGED trainVars

\* list(vocab.values()).index(id) raises ValueError when no word has the id.
HasWord(id) == \E w \in DOMAIN vocab : vocab[w] = id
WordOf(id) == CHOOSE w \in DOMAIN vocab : vocab[w] = id

\* l.386
PrintPrediction ==
  /\ pc = "print"
  /\ UNCHANGED ticks
  /\ IF ~HasWord(predicted_token)
     THEN Raise("ValueError") /\ UNCHANGED << stdout, decoded >>
     ELSE /\ stdout' = Append(stdout, [kind |-> "predicted", text |-> input_text,
                                       n |-> runs, value |-> predicted_token,
                                       word |-> WordOf(predicted_token)])
          /\ decoded' = Append(decoded,
               [tokens |-> input_tokens, state_dict |-> state_dict,
                last |-> output.logits[Len(output.logits)],
                predicted |-> predicted_token])
          /\ pc' = "end"
          /\ error' = error
  /\ UNCHANGED << cfg, model, state_dict, optimizer, grad, data, output,
                  console, input_text, input_tokens, input_tensor,
                  predicted_token, runs >>
  /\ UNCHANGED trainVars

\* The cell is run again, after it ended or raised.
Rerun ==
  /\ pc \in { "end", "raised" }
  /\ UNCHANGED ticks
  /\ runs \in 1..(MaxRuns - 1)
  /\ pc' = "input"
  /\ error' = "none"
  /\ UNCHANGED << cfg, model, state_dict, optimizer, grad, data, output,
                  console, stdout >>
  /\ UNCHANGED inferVars
  /\ UNCHANGED trainVars

(***************************************************************************)
(* The specifications.                                                     *)
(***************************************************************************)
\* The notebook, run once from the top.
Next ==
  \/ Construct \/ TokenizeData \/ EpochHead \/ SentenceHead \/ SplitHead
  \/ ZeroGradStep \/ Forward \/ Loss \/ Backward \/ Step \/ Accumulate
  \/ Report \/ ReadInput \/ TokenizeInput \/ MakeTensor \/ InferForward
  \/ ArgMax \/ PrintPrediction

Spec == Init /\ [][Next]_vars

\* The notebook run from the top, and its last cell run again.
NextInfer == Next \/ Rerun

SpecInfer == InitInfer /\ [][NextInfer]_vars

SpecLong == InitLong /\ [][Next]_vars

\* The notebook from the top to its first forward pass.
NextConstruct ==
  \/ Construct \/ TokenizeData \/ EpochHead \/ SentenceHead \/ SplitHead
  \/ ZeroGradStep \/ Forward

SpecConstruct == InitConstruct /\ [][NextConstruct]_vars

(***************************************************************************)
(* The training examples of an epoch.                                      *)
(***************************************************************************)
Max(a, b) == IF a > b THEN a ELSE b

\* The number of examples sentence s is to give: one per split point
\* 1 <= i <= len(sentence) - 1.
ExamplesOf(s) == Max(Len(tokenized_data[s]) - 1, 0)

\* The number of examples sentences 1..n are to give.
ExamplesUpTo(n) == SumRange([s \in 1..n |-> ExamplesOf(s)], 1, n)

ExamplesPerEpoch == ExamplesUpTo(Len(tokenized_data))

IsPair(s, k) ==
  s \in 1..Len(tokenized_data) /\ k \in 1..(Len(tokenized_data[s]) - 1)

Before(a, b) == a[1] < b[1] \/ (a[1] = b[1] /\ a[2] < b[2])

\* C1: within an epoch the loop has trained on exactly the pairs (sentence, i),
\* 1 <= i <= len(sentence) - 1, that precede its position, each once, in
\* corpus order and then increasing i; the input of (sentence, i) is
\* sentence[0:i], its target sentence[i], and its loss is taken at position
\* i - 1 of the output.  At the end of the epoch these are all the pairs, so
\* a sentence of length 0 or 1 has contributed none.
C1_EpochExamples ==
  /\ \A k \in 1..Len(examples) :
       LET e == examples[k]
       IN  /\ IsPair(e.sentence, e.i)
           /\ e.input = SubSeq(tokenized_data[e.sentence], 1, e.i)
           /\ e.target = tokenized_data[e.sentence][e.i + 1]
           /\ e.position = e.i - 1
           /\ k > 1 => Before(<< examples[k - 1].sentence, examples[k - 1].i >>,
                              << e.sentence, e.i >>)
           /\ Before(<< e.sentence, e.i >>, << si, i + 1 >>)
  /\ pc = "split" =>
       Len(examples) = ExamplesUpTo(si - 1) + Min(i - 1, ExamplesOf(si))
  /\ pc \in { "sentence", "report" } => Len(examples) = ExamplesUpTo(si - 1)
  /\ pc = "report" => Len(examples) = ExamplesPerEpoch

\* The second epoch has ended on a corpus with a sentence too short to give
\* an example and one that gave one.
C1_Witness ==
  /\ pc = "report" /\ epoch = 1
  /\ \E s \in 1..Len(tokenized_data) : Len(tokenized_data[s]) <= 1
  /\ Len(examples) >= 1

(***************************************************************************)
(* The steps of one example.                                               *)
(***************************************************************************)
StepOrder == << "forward", "loss", "backward", "step", "accumulate" >>

IsPrefix(a, b) == Len(a) <= Len(b) /\ a = SubSeq(b, 1, Len(a))

NotZeroGrad(p) == p # "zero_grad"

\* C2: the steps taken for an example are forward, loss, backward, update,
\* accumulate in that order; when the loop turns to the next example all five
\* are done; the optimizer has stepped once per example trained on; and the
\* gradient an update applies is that of the current example alone.
C2_OnlineSteps ==
  /\ IsPrefix(SelectSeq(phases, NotZeroGrad), StepOrder)
  /\ pc = "forward" => SelectSeq(phases, NotZeroGrad) = << >>
  /\ (pc \in { "split", "sentence", "report", "epoch" } /\ phases # << >>) =>
       SelectSeq(phases, NotZeroGrad) = StepOrder
  /\ pc \in { "split", "sentence", "report" } =>
       steps = epoch * ExamplesPerEpoch + Len(examples)
  /\ pc \in { "backward", "step" } =>
       steps + 1 = epoch * ExamplesPerEpoch + Len(examples)
  /\ optimizer.step = steps
  /\ pc = "step" => grad = << << epoch, si, i >> >>

\* An update is about to be applied for an example that is not the first.
C2_Witness == pc = "step" /\ steps = 3 /\ grad # << >>

(***************************************************************************)
(* Termination.                                                            *)
(***************************************************************************)
\* The statements Step 7 executes: the construction, the tokenization and
\* the last test of range(200); per epoch its head, its report, a loop head
\* per sentence and one more, a loop head per split point and one more per
\* sentence, and six statements per example.
Statements ==
  3 + NumEpochs * (3 + 2 * Len(tokenized_data) + 7 * ExamplesPerEpoch)

\* The statements of Step 7; each has an action whose only guard is pc.
TrainingCell ==
  { "construct", "tokenize_data", "epoch", "sentence", "split", "zero_grad",
    "forward", "loss", "backward", "step", "accumulate", "report" }

\* C3: the training cell never raises and never stops before its end, it
\* ends within a fixed number of statements, and at its end exactly
\* NumEpochs epochs are done and the optimizer has stepped NumEpochs times
\* the number of examples of an epoch, whatever the losses were.
C3_Terminates ==
  /\ epoch <= NumEpochs
  /\ runs = 0 /\ pc # "input" =>
       pc \in TrainingCell /\ ticks < Statements
  /\ runs > 0 \/ pc = "input" =>
       /\ epoch = NumEpochs
       /\ steps = NumEpochs * ExamplesPerEpoch
       /\ ticks = Statements

\* Training has ended; one report shows an epoch whose total loss was 0,
\* another one an epoch whose total loss was not.
C3_Witness ==
  /\ pc = "input" /\ steps > 0 /\ steps = NumEpochs * ExamplesPerEpoch
  /\ \E k \in 1..Len(stdout) : stdout[k].kind = "epoch" /\ stdout[k].value = 0
  /\ \E k \in 1..Len(stdout) : stdout[k].kind = "epoch" /\ stdout[k].value > 0

(***************************************************************************)
(* The inference cell.                                                     *)
(***************************************************************************)
\* input_tokens is the tokenization of input_text.
AfterTokenize ==
  runs >= 1 /\ pc \in { "tensor", "infer_forward", "argmax", "print", "end",
                        "raised" }

\* model(input_tensor) has returned or raised.
AfterForward == runs >= 1 /\ pc \in { "argmax", "print", "end", "raised" }

\* C4: a forward pass on more than max_seq_len tokens raises and leaves no
\* logits and no prediction; a forward pass that returns has added row p of
\* the positional table at position p, for every position of its input.
C4_Capacity ==
  /\ AfterForward /\ Len(input_tokens) > max_seq_len =>
       /\ pc = "raised" /\ error = "RuntimeError"
       /\ output.err = "RuntimeError" /\ output.logits = << >>
       /\ predicted_token = -1
  /\ output.err = "none" =>
       /\ Len(output.rows) <= max_seq_len
       /\ \A p \in 1..Len(output.rows) : output.rows[p] = p - 1
  /\ AfterForward /\ output.err = "none" =>
       Len(output.rows) = Len(input_tokens)
  /\ pc \in { "loss", "backward", "step", "accumulate" } =>
       Len(output.rows) = Len(input_seq.data)

\* The user typed max_seq_len + 1 words and the forward pass raised.
C4_Witness ==
  /\ pc = "raised" /\ error = "RuntimeError"
  /\ Len(input_tokens) = max_seq_len + 1

\* C5: when the text typed holds no word, the inference cell raises: it
\* computes no predicted token and prints none.
C5_EmptyRejected ==
  /\ \A k \in 1..Len(stdout) :
       stdout[k].kind = "predicted" => split(stdout[k].text) # << >>
  /\ AfterForward /\ split(input_text) = << >> =>
       /\ pc = "raised"
       /\ error \in { "RuntimeError", "IndexError" }
       /\ predicted_token = -1

\* The user typed only whitespace and the cell raised.
C5_Witness ==
  /\ pc = "raised" /\ runs = 1 /\ error = "RuntimeError"
  /\ input_text = << Blank >> /\ input_tokens = << >>

IsTokenization(tokens, text) ==
  /\ Len(tokens) = Len(split(text))
  /\ \A k \in 1..Len(tokens) :
       tokens[k] = IF split(text)[k] \in DOMAIN vocab
                   THEN vocab[split(text)[k]] ELSE vocab["<UNK>"]

IsLogitMatrix(out, L) ==
  /\ out.err = "none"
  /\ out.shape = << 1, L, vocab_size >>
  /\ Len(out.logits) = L
  /\ \A p \in 1..L : DOMAIN out.logits[p] = 0..(vocab_size - 1)

C7_GreedyDeterministic ==
  /\ \A a, b \in 1..Len(decoded) :
       (decoded[a].tokens = decoded[b].tokens
          /\ decoded[a].state_dict = decoded[b].state_dict)
       => decoded[a].predicted = decoded[b].predicted
  /\ \A a \in 1..Len(decoded) :
       /\ decoded[a].predicted \in 0..(vocab_size - 1)
       /\ \A v \in 0..(vocab_size - 1) :
            decoded[a].last[v] <= decoded[a].last[decoded[a].predicted]
  /\ pc \in { "print", "end" } =>
       /\ predicted_token \in 0..(vocab_size - 1)
       /\ \A v \in 0..(vocab_size - 1) :
            output.logits[Len(input_tokens)][v]
              <= output.logits[Len(input_tokens)][predicted_token]

\* The cell has run twice on the same two or more tokens.
C7_Witness ==
  /\ Len(decoded) = 2
  /\ decoded[1].tokens = decoded[2].tokens
  /\ Len(decoded[1].tokens) >= 2

(***************************************************************************)
(* The model's state.                                                      *)
(***************************************************************************)
PE == << "positional_encoding.pe", 0 >>

\* C8: a forward pass, in training or in inference, leaves every tensor of
\* the model as it was; only optimizer.step() changes a tensor after the
\* construction, and never the positional table.
C8_ForwardIsPure ==
  [][ /\ pc \in { "forward", "infer_forward" } =>
           state_dict' = state_dict /\ model' = model
      /\ state_dict' # state_dict => pc \in { "construct", "step" }
      /\ pc # "construct" => model' = model /\ state_dict'[PE] = state_dict[PE]
    ]_vars

\* A forward pass of the inference cell has returned, after training has
\* changed the parameters.
C8_Witness ==
  /\ pc = "argmax" /\ steps > 0 /\ output.err = "none"
  /\ state_dict[PE] = 0
  /\ \E seed \in Seeds : state_dict # InitialStateDict(model, seed)

(***************************************************************************)
(* Construction.                                                           *)
(***************************************************************************)
ConstructionFailed ==
  /\ pc = "raised" /\ error # "none" /\ ~model.built
  /\ ticks = 1 /\ steps = 0 /\ output = NoOutput

\* C9 as stated: an odd embedding_dim makes SimpleLLM(...) raise.
C9_OddFails ==
  (pc # "construct" /\ cfg.embedding_dim % 2 = 1) => ConstructionFailed

\* C9, amended: an odd embedding_dim of 3 or more (and an embedding_dim of 0)
\* makes SimpleLLM(...) raise before any forward pass or training step; a
\* model that is built has the embedding_dim it was asked for in its
\* embedding table, its positional table and its output projection.
C9_OddAboveOneFails ==
  /\ (pc # "construct"
        /\ (cfg.embedding_dim = 0
              \/ (cfg.embedding_dim % 2 = 1 /\ cfg.embedding_dim >= 3)))
     => ConstructionFailed
  /\ model.built =>
       /\ model.embedding.cols = cfg.embedding_dim
       /\ model.pe.cols = cfg.embedding_dim
       /\ model.output.in = cfg.embedding_dim
       /\ model.embedding.rows = cfg.vocab_size
       /\ Len(model.blocks) = cfg.num_layers

\* SimpleLLM(...) has raised for embedding_dim = 3.
C9_Witness ==
  pc = "raised" /\ cfg.embedding_dim = 3 /\ error = "RuntimeError"

(***************************************************************************)
(* Token ids.                                                              *)
(***************************************************************************)
InVocabRange(tokens) ==
  \A k \in 1..Len(tokens) : tokens[k] \in 0..(vocab_size - 1)

\* C10: vocab_size is 73, every id of the tokenized corpus and of the
\* tokenized input is in 0..72, and no forward pass raises IndexError.
C10_IdsInRange ==
  /\ vocab_size = 73
  /\ { vocab[w] : w \in DOMAIN vocab } = 0..72
  /\ model.built => model.embedding.rows = vocab_size
  /\ \A s \in 1..Len(tokenized_data) : InVocabRange(tokenized_data[s])
  /\ InVocabRange(input_seq.data)
  /\ AfterTokenize => InVocabRange(input_tokens)
  /\ error # "IndexError" /\ output.err # "IndexError"

\* The corpus and the text typed both hold a word that is not in the
\* vocabulary, and the forward pass of the inference cell has returned.
C10_Witness ==
  /\ pc = "argmax" /\ output.err = "none"
  /\ \E k \in 1..Len(input_tokens) :
       input_tokens[k] = vocab["<UNK>"] /\ split(input_text)[k] \notin DOMAIN vocab
  /\ \E s \in 1..Len(data) : \E k \in 1..Len(tokenized_data[s]) :
       tokenized_data[s][k] = vocab["<UNK>"]
         /\ split(data[s])[k] \notin DOMAIN vocab
  /\ steps > 0

====
